---------------------------- MODULE Spec2Model ----------------------------
(***************************************************************************)
(* Model of src/server.py: the token_required decorator and the           *)
(* update_table_status handler (PUT /api/tables/<int:table_number>/status) *)
(* running against the `tables` relation of a PostgreSQL store.            *)
(*                                                                         *)
(* Each request is served by its own thread of the hosting runtime; the    *)
(* requests interleave at the storage round trips (connect, cursor,        *)
(* execute, fetchone, commit, rollback, close).  The store is modelled by  *)
(* its committed rows, the row locks taken by UPDATE, and every open       *)
(* transaction's uncommitted writes.                                       *)
(***************************************************************************)
EXTENDS Integers, Sequences, FiniteSets, TLC

\* ---------------------------------------------------------------- bounds
NumReqs   == 2      \* request threads served concurrently
NumTables == 2      \* rows seeded into `tables` (table_number 1..NumTables)

Reqs         == 1..NumReqs
TableRows    == 1..NumTables
\* <int:table_number> of the route: the seeded rows and one number with no row
TableNumbers == 1..(NumTables + 1)

\* ------------------------------------------------------- request inputs
\* Shapes of the Authorization header seen by token_required.
\*   absent       no Authorization header
\*   scheme_only  "Bearer"            (no space, no token segment)
\*   empty_token  "Bearer "           (token segment is the empty string)
\*   expired      "Bearer <t>", t signed but past exp
\*   invalid      "Bearer <t>", t malformed / bad signature
\*   valid        "Bearer <t>", t verifies
Headers == {"absent", "scheme_only", "empty_token", "expired", "invalid", "valid"}

\* role claim of a verified token (tokens are minted with user_id and role)
Roles == {"waiter", "admin", "customer"}

\* Shapes of the request body as request.get_json() sees it.
\*   no_json     no JSON body / content type is not JSON
\*   malformed   a JSON content type with a body that does not parse
\*   json_null   the JSON document `null`
\*   json_array  a JSON array
\*   object      a JSON object; its "status" member is given by StatusInputs
Bodies == {"no_json", "malformed", "json_null", "json_array", "object"}

Absent == "<absent>"     \* the object has no "status" key
Null   == "<null>"       \* "status": null
\* values of data.get('status'); "" is a present but empty string
StatusInputs == {Absent, Null, "", "available", "occupied", "cleaning",
                 "reserved", "invalid_status"}

\* ------------------------------------------------------- code constants
\* A validation list that lets one more value through
allowed_statuses_lax == {"available", "occupied", "cleaning", "reserved",
                         "invalid_status"}

allowed_statuses == {"available", "occupied", "cleaning", "reserved"}

\* A role list that also admits customers
allowed_roles_lax == {"waiter", "admin", "customer"}

allowed_roles == {"waiter", "admin"}

default_status == "available"

\* ------------------------------------------------------------ responses
NoResp == [code |-> 0, kind |-> "none", table_number |-> 0, status |-> ""]

Resp(c, k) == [code |-> c, kind |-> k, table_number |-> 0, status |-> ""]

\* An exception that leaves the view function: Flask answers it itself
\* (500 Internal Server Error, or the traceback page when debug=True).
RawError(e) == [code |-> 500, kind |-> e, table_number |-> 0, status |-> ""]

VARIABLES
    pc,            \* position of each request thread
    header,        \* Authorization header shape of the request
    role,          \* request.user_role
    table_number,  \* path parameter
    body,          \* body shape
    new_status,    \* data.get('status')
    conn,          \* "None" | "open" | "closed"
    cur,           \* "None" | "open" | "closed"
    tx,            \* transaction of conn: "none" | "active" | "committed" | "rolledback"
    writes,        \* rows written by the transaction: set of <<n, status>>
    result,        \* rows produced by RETURNING *, held by the cursor
    updated_table, \* cur.fetchone(): a row <<n, status>>, or <<>> for None
    resp,          \* the response of the request
    invoked,       \* the wrapped view function f was called
    fault,         \* where the environment made the request fail
    tables,        \* committed rows: table_number -> status
    lock,          \* row lock holder: table_number -> request or 0
    lastCommitter  \* history: per row, the request whose commit wrote it last, or 0

vars == <<pc, header, role, table_number, body, new_status, conn, cur, tx,
          writes, result, updated_table, resp, invoked, fault, tables, lock,
          lastCommitter>>

reqVars == <<header, role, table_number, body, new_status>>
dbVars  == <<tables, lock, lastCommitter>>


\* ------------------------------------------------------- pure functions
\* request.headers['Authorization'].split(" ") for each header shape
SplitHeader(h) ==
    CASE h = "scheme_only" -> <<"Bearer">>
      [] h = "empty_token" -> <<"Bearer", "">>
      [] OTHER             -> <<"Bearer", h>>

\* Python truthiness of data.get('status'): None and "" are falsy
Truthy(v) == v \notin {Absent, Null, ""}

\* Lines 40-45: the token taken from the header.  "None" when there is no
\* header, "IndexError" when split(" ") has no element [1].
ExtractToken(h) ==
    IF h = "absent" THEN "None"
    ELSE IF Len(SplitHeader(h)) < 2 THEN "IndexError"
    ELSE SplitHeader(h)[2]

\* A check that only catches the empty string (`if token == ""`)
TokenMissingEmptyOnly(tok) == tok = ""

\* `if not token`
TokenMissing(tok) == tok \in {"None", ""}

\* Lines 47-54: jwt.decode of a non-empty token
DecodeError(tok) ==
    CASE tok = "expired" -> Resp(401, "token_expired")
      [] tok = "invalid" -> Resp(401, "token_invalid")
      [] OTHER           -> NoResp

\* Line 70
RoleAllowed(ro) == ro \in allowed_roles

\* Lines 73-82 for a body that is a JSON object whose status member is s:
\* the rejection, or NoResp when the request goes on to storage.
ValidateStatus(s) ==
    IF ~Truthy(s) THEN Resp(400, "status_required")
    ELSE IF s \notin allowed_statuses THEN Resp(400, "invalid_status")
    ELSE NoResp

\* The UPDATE without its WHERE clause
UpdateReturningAll(t, s, n) ==
    { <<m, s>> : m \in DOMAIN t }

\* Lines 91-94: UPDATE tables SET status = s WHERE table_number = n
\* RETURNING * : the post-update rows, as <<table_number, status>>.
UpdateReturning(t, s, n) ==
    { <<m, s>> : m \in { k \in DOMAIN t : k = n } }

\* Line 95: cur.fetchone(): the first row of the result, or None (<<>>)
FetchOne(rows) ==
    IF rows = {} THEN <<>> ELSE CHOOSE w \in rows : TRUE

\* Line 96: the store after the transaction's writes are committed
ApplyWrites(t, ws) ==
    [m \in DOMAIN t |->
        IF \E w \in ws : w[1] = m
        THEN (CHOOSE w \in ws : w[1] = m)[2]
        ELSE t[m]]

\* A return that does not test whether a row was updated
HandlerReturnAlways200(row) ==
    [code |-> 200, kind |-> "ok",
     table_number |-> IF row # <<>> THEN row[1] ELSE 0,
     status |-> IF row # <<>> THEN row[2] ELSE ""]

\* A return that reads the row back with a second query after the commit
\* instead of using the row RETURNING gave
HandlerReturnReread(row) ==
    IF row # <<>>
    THEN [code |-> 200, kind |-> "ok", table_number |-> row[1],
          status |-> tables[row[1]]]
    ELSE Resp(404, "not_found")

\* Lines 98-105: the response built from the fetched row
HandlerReturn(row) ==
    IF row # <<>>
    THEN [code |-> 200, kind |-> "ok", table_number |-> row[1], status |-> row[2]]
    ELSE Resp(404, "not_found")

\* row locks after request r's transaction ends
Unlock(l, r) == [m \in DOMAIN l |-> IF l[m] = r THEN 0 ELSE l[m]]

\* ----------------------------------------------------------------- Init
\* Lines 136-137: every seeded row starts 'available'.
Init ==
    /\ pc            = [r \in Reqs |-> "idle"]
    /\ header        = [r \in Reqs |-> "absent"]
    /\ role          = [r \in Reqs |-> "none"]
    /\ table_number  = [r \in Reqs |-> 0]
    /\ body          = [r \in Reqs |-> "none"]
    /\ new_status    = [r \in Reqs |-> Absent]
    /\ conn          = [r \in Reqs |-> "None"]
    /\ cur           = [r \in Reqs |-> "None"]
    /\ tx            = [r \in Reqs |-> "none"]
    /\ writes        = [r \in Reqs |-> {}]
    /\ result        = [r \in Reqs |-> {}]
    /\ updated_table = [r \in Reqs |-> <<>>]
    /\ resp          = [r \in Reqs |-> NoResp]
    /\ invoked       = [r \in Reqs |-> FALSE]
    /\ fault         = [r \in Reqs |-> "none"]
    /\ tables        = [n \in TableRows |-> default_status]
    /\ lock          = [n \in TableRows |-> 0]
    /\ lastCommitter = [n \in TableRows |-> 0]

\* -------------------------------------------------------------- actions
\* Lines 37-57: the token_required wrapper, from the arrival of a request to
\* its rejection or the call of the view function.  The request's inputs are
\* drawn here: the header shape and, for a token that verifies, the role
\* claim and the <int:table_number> of the route.
TokenRequiredOn(r, Hs, Ros, Ns) ==
    /\ pc[r] = "idle"
    /\ \E h \in Hs, ro \in Ros, n \in Ns :
        LET tok == ExtractToken(h) IN
        /\ header' = [header EXCEPT ![r] = h]
        /\ IF tok = "IndexError"
           THEN \* line 42 raises; nothing in the wrapper catches it
                /\ resp' = [resp EXCEPT ![r] = RawError("IndexError")]
                /\ pc' = [pc EXCEPT ![r] = "done"]
                /\ UNCHANGED <<role, table_number, invoked>>
           ELSE IF TokenMissing(tok)
           THEN /\ resp' = [resp EXCEPT ![r] = Resp(401, "token_missing")]
                /\ pc' = [pc EXCEPT ![r] = "done"]
                /\ UNCHANGED <<role, table_number, invoked>>
           ELSE IF DecodeError(tok) # NoResp
           THEN /\ resp' = [resp EXCEPT ![r] = DecodeError(tok)]
                /\ pc' = [pc EXCEPT ![r] = "done"]
                /\ UNCHANGED <<role, table_number, invoked>>
           ELSE /\ role' = [role EXCEPT ![r] = ro]
                /\ table_number' = [table_number EXCEPT ![r] = n]
                /\ invoked' = [invoked EXCEPT ![r] = TRUE]
                /\ pc' = [pc EXCEPT ![r] = "handler"]
                /\ UNCHANGED resp
    /\ UNCHANGED <<body, new_status, conn, cur, tx, writes, result,
                   updated_table, fault, dbVars>>

\* Lines 70-82: the role check, request.get_json(), data.get('status') and
\* the two status checks.  The body is drawn here.  get_json() of a request
\* without a JSON body returns None or aborts with 415, depending on the
\* Flask release the deployment installs; None.get and list.get raise
\* AttributeError outside the try block.
CheckRequestOn(r, Bs, Ss) ==
    /\ pc[r] = "handler"
    /\ IF ~RoleAllowed(role[r])
       THEN /\ resp' = [resp EXCEPT ![r] = Resp(403, "forbidden")]
            /\ pc' = [pc EXCEPT ![r] = "done"]
            /\ UNCHANGED <<body, new_status>>
       ELSE \E b \in Bs, s \in Ss, strict \in BOOLEAN :
            /\ body' = [body EXCEPT ![r] = b]
            /\ IF b = "no_json" /\ strict
               THEN /\ resp' = [resp EXCEPT ![r] = Resp(415, "unsupported_media_type")]
                    /\ pc' = [pc EXCEPT ![r] = "done"]
                    /\ UNCHANGED new_status
               ELSE IF b = "malformed"
               THEN \* get_json() aborts with Flask's own 400 Bad Request
                    /\ resp' = [resp EXCEPT ![r] = Resp(400, "bad_request")]
                    /\ pc' = [pc EXCEPT ![r] = "done"]
                    /\ UNCHANGED new_status
               ELSE IF b # "object"
               THEN /\ resp' = [resp EXCEPT ![r] = RawError("AttributeError")]
                    /\ pc' = [pc EXCEPT ![r] = "done"]
                    /\ UNCHANGED new_status
               ELSE /\ new_status' = [new_status EXCEPT ![r] = s]
                    /\ IF ValidateStatus(s) # NoResp
                       THEN /\ resp' = [resp EXCEPT ![r] = ValidateStatus(s)]
                            /\ pc' = [pc EXCEPT ![r] = "done"]
                       ELSE /\ pc' = [pc EXCEPT ![r] = "connect"]
                            /\ UNCHANGED resp
    /\ UNCHANGED <<header, role, table_number, conn, cur, tx, writes, result,
                   updated_table, invoked, fault, dbVars>>

\* A request with any header, role, table number and body
TokenRequired(r) == TokenRequiredOn(r, Headers, Roles, TableNumbers)

CheckRequest(r) == CheckRequestOn(r, Bodies, StatusInputs)

\* What the environment does to one storage call: it succeeds, raises a
\* psycopg2.Error, or raises some other Exception.
Outcomes == {"ok", "db_error", "unexpected"}

\* The jump to the except clause that matches the exception raised at `stage`
Raise(r, stage, o) ==
    /\ pc' = [pc EXCEPT ![r] = IF o = "db_error" THEN "except_db" ELSE "except_other"]
    /\ fault' = [fault EXCEPT ![r] = IF o = "db_error" THEN stage ELSE "unexpected"]

\* Line 87: conn = get_db_connection()
Connect(r) ==
    /\ pc[r] = "connect"
    /\ \E o \in Outcomes :
        IF o = "ok"
        THEN /\ conn' = [conn EXCEPT ![r] = "open"]
             /\ pc' = [pc EXCEPT ![r] = "cursor"]
             /\ UNCHANGED fault
        ELSE /\ Raise(r, "connect", o)
             /\ UNCHANGED conn
    /\ UNCHANGED <<reqVars, cur, tx, writes, result, updated_table, resp,
                   invoked, dbVars>>

\* Line 88: cur = conn.cursor()
Cursor(r) ==
    /\ pc[r] = "cursor"
    /\ \E o \in Outcomes :
        IF o = "ok"
        THEN /\ cur' = [cur EXCEPT ![r] = "open"]
             /\ pc' = [pc EXCEPT ![r] = "execute"]
             /\ UNCHANGED fault
        ELSE /\ Raise(r, "cursor", o)
             /\ UNCHANGED cur
    /\ UNCHANGED <<reqVars, conn, tx, writes, result, updated_table, resp,
                   invoked, dbVars>>

\* Lines 91-94: cur.execute(UPDATE ... RETURNING *).  psycopg2 opens the
\* transaction with the first statement.  The UPDATE waits for the row lock
\* of every row it matches and holds it until the transaction ends.  A
\* statement that fails leaves the transaction open (aborted) with no write.
Execute(r) ==
    /\ pc[r] = "execute"
    /\ tx' = [tx EXCEPT ![r] = "active"]
    /\ \E o \in Outcomes :
        IF o = "ok"
        THEN LET rows == UpdateReturning(tables, new_status[r], table_number[r]) IN
             /\ \A w \in rows : lock[w[1]] \in {0, r}
             /\ lock' = [m \in DOMAIN lock |->
                            IF \E w \in rows : w[1] = m THEN r ELSE lock[m]]
             /\ writes' = [writes EXCEPT ![r] = rows]
             /\ result' = [result EXCEPT ![r] = rows]
             /\ pc' = [pc EXCEPT ![r] = "fetchone"]
             /\ UNCHANGED fault
        ELSE /\ Raise(r, "execute", o)
             /\ UNCHANGED <<lock, writes, result>>
    /\ UNCHANGED <<reqVars, conn, cur, updated_table, resp, invoked, tables,
                   lastCommitter>>

\* Line 95: updated_table = cur.fetchone()
Fetchone(r) ==
    /\ pc[r] = "fetchone"
    /\ \E o \in Outcomes :
        IF o = "ok"
        THEN /\ updated_table' = [updated_table EXCEPT ![r] = FetchOne(result[r])]
             /\ pc' = [pc EXCEPT ![r] = "commit"]
             /\ UNCHANGED fault
        ELSE /\ Raise(r, "fetchone", o)
             /\ UNCHANGED updated_table
    /\ UNCHANGED <<reqVars, conn, cur, tx, writes, result, resp, invoked, dbVars>>

\* Line 96: conn.commit().  The writes become the committed rows and the
\* row locks are released.  A failed commit commits nothing.
Commit(r) ==
    /\ pc[r] = "commit"
    /\ \E o \in Outcomes :
        IF o = "ok"
        THEN /\ tables' = ApplyWrites(tables, writes[r])
             /\ lastCommitter' = [m \in DOMAIN lastCommitter |->
                    IF \E w \in writes[r] : w[1] = m THEN r ELSE lastCommitter[m]]
             /\ lock' = Unlock(lock, r)
             /\ tx' = [tx EXCEPT ![r] = "committed"]
             /\ pc' = [pc EXCEPT ![r] = "respond"]
             /\ UNCHANGED fault
        ELSE /\ Raise(r, "commit", o)
             /\ UNCHANGED <<tables, lastCommitter, lock, tx>>
    /\ UNCHANGED <<reqVars, conn, cur, writes, result, updated_table, resp, invoked>>

\* Lines 98-105: the return statement of the try block; building the
\* response may itself raise (an Exception that is no psycopg2.Error).
Respond(r) ==
    /\ pc[r] = "respond"
    /\ \E o \in {"ok", "unexpected"} :
        IF o = "ok"
        THEN /\ resp' = [resp EXCEPT ![r] = HandlerReturn(updated_table[r])]
             /\ pc' = [pc EXCEPT ![r] = "finally"]
             /\ UNCHANGED fault
        ELSE /\ Raise(r, "respond", o)
             /\ UNCHANGED resp
    /\ UNCHANGED <<reqVars, conn, cur, tx, writes, result, updated_table,
                   invoked, dbVars>>

\* Lines 107-110: except psycopg2.Error.  conn.rollback() on conn = None
\* raises AttributeError inside the except clause: the return on line 110 is
\* never reached and the AttributeError leaves the view function.
ExceptDb(r) ==
    /\ pc[r] = "except_db"
    /\ IF conn[r] = "None"
       THEN /\ resp' = [resp EXCEPT ![r] = RawError("AttributeError")]
            /\ UNCHANGED <<tx, writes, lock>>
       ELSE /\ tx' = [tx EXCEPT ![r] = IF tx[r] = "active" THEN "rolledback" ELSE tx[r]]
            /\ writes' = [writes EXCEPT ![r] = IF tx[r] = "active" THEN {} ELSE writes[r]]
            /\ lock' = Unlock(lock, r)
            /\ resp' = [resp EXCEPT ![r] = Resp(500, "db_error")]
    /\ pc' = [pc EXCEPT ![r] = "finally"]
    /\ UNCHANGED <<reqVars, conn, cur, result, updated_table, invoked, fault,
                   tables, lastCommitter>>

\* Lines 111-113: except Exception
ExceptOther(r) ==
    /\ pc[r] = "except_other"
    /\ resp' = [resp EXCEPT ![r] = Resp(500, "unexpected")]
    /\ pc' = [pc EXCEPT ![r] = "finally"]
    /\ UNCHANGED <<reqVars, conn, cur, tx, writes, result, updated_table,
                   invoked, fault, dbVars>>

\* A finally block that closes the cursor but forgets conn.close()
FinallyNoClose(r) ==
    /\ pc[r] = "finally"
    /\ cur' = [cur EXCEPT ![r] = IF cur[r] # "None" THEN "closed" ELSE cur[r]]
    /\ pc' = [pc EXCEPT ![r] = "done"]
    /\ UNCHANGED <<reqVars, conn, tx, writes, lock, result, updated_table,
                   resp, invoked, fault, tables, lastCommitter>>

\* Lines 114-118: finally.  Closing a connection whose transaction is still
\* open discards the transaction as a ROLLBACK does.  The handler returns.
Finally(r) ==
    /\ pc[r] = "finally"
    /\ cur' = [cur EXCEPT ![r] = IF cur[r] # "None" THEN "closed" ELSE cur[r]]
    /\ IF conn[r] # "None"
       THEN /\ conn' = [conn EXCEPT ![r] = "closed"]
            /\ tx' = [tx EXCEPT ![r] = IF tx[r] = "active" THEN "rolledback" ELSE tx[r]]
            /\ writes' = [writes EXCEPT ![r] = IF tx[r] = "active" THEN {} ELSE writes[r]]
            /\ lock' = Unlock(lock, r)
       ELSE UNCHANGED <<conn, tx, writes, lock>>
    /\ pc' = [pc EXCEPT ![r] = "done"]
    /\ UNCHANGED <<reqVars, result, updated_table, resp, invoked, fault,
                   tables, lastCommitter>>

\* The thread that served a request takes the next one: every local of the
\* previous request is gone.
NextRequest(r) ==
    /\ pc[r] = "done"
    /\ pc'            = [pc EXCEPT ![r] = "idle"]
    /\ header'        = [header EXCEPT ![r] = "absent"]
    /\ role'          = [role EXCEPT ![r] = "none"]
    /\ table_number'  = [table_number EXCEPT ![r] = 0]
    /\ body'          = [body EXCEPT ![r] = "none"]
    /\ new_status'    = [new_status EXCEPT ![r] = Absent]
    /\ conn'          = [conn EXCEPT ![r] = "None"]
    /\ cur'           = [cur EXCEPT ![r] = "None"]
    /\ tx'            = [tx EXCEPT ![r] = "none"]
    /\ writes'        = [writes EXCEPT ![r] = {}]
    /\ result'        = [result EXCEPT ![r] = {}]
    /\ updated_table' = [updated_table EXCEPT ![r] = <<>>]
    /\ resp'          = [resp EXCEPT ![r] = NoResp]
    /\ invoked'       = [invoked EXCEPT ![r] = FALSE]
    /\ fault'         = [fault EXCEPT ![r] = "none"]
    /\ UNCHANGED dbVars

\* One worker thread serving requests of every shape, one after the other.
Next ==
    \/ TokenRequired(1)
    \/ CheckRequest(1)
    \/ Connect(1)
    \/ Cursor(1)
    \/ Execute(1)
    \/ Fetchone(1)
    \/ Commit(1)
    \/ Respond(1)
    \/ ExceptDb(1)
    \/ ExceptOther(1)
    \/ Finally(1)
    \/ NextRequest(1)

Spec == Init /\ [][Next]_vars

\* NumReqs threads, each serving one request concurrently with the others.
\* The requests are the ones that reach storage (a request rejected by the
\* wrapper or by validation touches nothing shared): a verified token of a
\* waiter, a JSON object body, two distinct valid statuses, all aimed at the
\* same row.
ConcStatuses == {"occupied", "cleaning"}

ConcTables == {1}

NextConc ==
    \E r \in Reqs :
        \/ TokenRequiredOn(r, {"valid"}, {"waiter"}, ConcTables)
        \/ CheckRequestOn(r, {"object"}, ConcStatuses)
        \/ Connect(r)
        \/ Cursor(r)
        \/ Execute(r)
        \/ Fetchone(r)
        \/ Commit(r)
        \/ Respond(r)
        \/ ExceptDb(r)
        \/ ExceptOther(r)
        \/ Finally(r)

SpecConc == Init /\ [][NextConc]_vars


\* =========================================================== properties
\* Vocabulary of the specification, written out independently of the code's
\* constants allowed_statuses and allowed_roles.
SpecStatuses == {"available", "occupied", "cleaning", "reserved"}

SpecRoles == {"waiter", "admin"}

DbFaults == {"connect", "cursor", "execute", "fetchone", "commit"}

Returned(r) == pc[r] = "done"

\* the step taken is a step of request r
StepOf(r) == pc'[r] # pc[r]

\* request r never reached storage
NoStorage(r) ==
    /\ conn[r] = "None"
    /\ cur[r] = "None"
    /\ tx[r] = "none"
    /\ writes[r] = {}

\* r came through the wrapper with an allowed role and a JSON object body
AuthorizedObject(r) ==
    /\ invoked[r]
    /\ header[r] = "valid"
    /\ role[r] \in SpecRoles
    /\ body[r] = "object"

\* ------------------------------------------------------------------ C1
C1_Response ==
    \A r \in Reqs :
        ( /\ Returned(r)
          /\ AuthorizedObject(r)
          /\ new_status[r] \in SpecStatuses
          /\ table_number[r] \in DOMAIN tables
          /\ fault[r] = "none" )
        => /\ resp[r] = [code |-> 200, kind |-> "ok",
                         table_number |-> table_number[r],
                         status |-> new_status[r]]
           /\ tx[r] = "committed"

C1_Frame ==
    \A r \in Reqs :
        StepOf(r) =>
            IF pc[r] = "commit" /\ pc'[r] = "respond"
               /\ table_number[r] \in DOMAIN tables
            THEN tables' = [tables EXCEPT ![table_number[r]] = new_status[r]]
            ELSE tables' = tables

C2_Rejected ==
    \A r \in Reqs :
        ( /\ Returned(r)
          /\ AuthorizedObject(r)
          /\ new_status[r] \notin {Absent, Null}
          /\ new_status[r] \notin SpecStatuses )
        => /\ resp[r].code = 400
           /\ NoStorage(r)

C2_Frame ==
    \A r \in Reqs :
        (StepOf(r) /\ pc[r] = "handler") => UNCHANGED <<tables, lock, conn, tx>>

\* C2: a request that reaches the handler's validation (verified token,
\* role waiter or admin, JSON object body) with a status that is present
\* but outside {available, occupied, cleaning, reserved} is answered 400,
\* has opened no connection and no transaction, and its validation step
\* changes no row.
C2_InvalidStatusRejected == []C2_Rejected /\ [][C2_Frame]_vars

C2_Witness ==
    \E r \in Reqs :
        /\ Returned(r)
        /\ AuthorizedObject(r)
        /\ new_status[r] = "invalid_status"
        /\ resp[r] = Resp(400, "invalid_status")
        /\ tables # [n \in TableRows |-> default_status]

\* ------------------------------------------------------------------ C3
C3_Forbidden ==
    \A r \in Reqs :
        ( /\ Returned(r)
          /\ header[r] = "valid"
          /\ role[r] \notin SpecRoles )
        => /\ resp[r] = Resp(403, "forbidden")
           /\ body[r] = "none"
           /\ NoStorage(r)

C3_Frame ==
    \A r \in Reqs :
        (StepOf(r) /\ pc[r] = "handler" /\ role[r] \notin SpecRoles)
        => /\ pc'[r] = "done"
           /\ UNCHANGED <<tables, lock, conn, tx>>

\* C3: a request with a verified token whose role is neither waiter nor
\* admin is answered 403 for every table number, without its body being
\* read, without a connection or transaction, and without a row changing.
C3_WrongRoleForbidden == []C3_Forbidden /\ [][C3_Frame]_vars

C3_Witness ==
    \E r \in Reqs :
        /\ Returned(r)
        /\ header[r] = "valid"
        /\ role[r] = "customer"
        /\ table_number[r] \in DOMAIN tables
        /\ resp[r].code = 403

\* ------------------------------------------------------------------ C4
C4_Unauthenticated ==
    \A r \in Reqs :
        (Returned(r) /\ header[r] = "absent")
        => /\ resp[r] = Resp(401, "token_missing")
           /\ ~invoked[r]
           /\ NoStorage(r)

C4_Frame ==
    \A r \in Reqs :
        (StepOf(r) /\ pc[r] = "idle")
        => UNCHANGED <<tables, lock, conn, cur, tx, writes>>

\* C4: a request without an Authorization header is answered 401 "token
\* missing"; the wrapped handler is not invoked and the wrapper's step
\* touches neither a connection nor a row.
C4_NoHeaderIs401 == []C4_Unauthenticated /\ [][C4_Frame]_vars

C4_Witness ==
    \E r \in Reqs :
        /\ Returned(r)
        /\ header[r] = "absent"
        /\ resp[r].code = 401
        /\ ~invoked[r]

\* ------------------------------------------------------------------ C5
C5_NotFound ==
    \A r \in Reqs :
        ( /\ Returned(r)
          /\ AuthorizedObject(r)
          /\ new_status[r] \in SpecStatuses
          /\ table_number[r] \notin DOMAIN tables
          /\ fault[r] = "none" )
        => resp[r] = Resp(404, "not_found")

C5_Frame ==
    \A r \in Reqs :
        ( /\ StepOf(r)
          /\ pc[r] \notin {"idle", "done"}
          /\ table_number[r] \notin DOMAIN tables )
        => tables' = tables

\* C5: an authorized update with a valid status of a table number that has
\* no row, when no storage call fails, is answered 404, and no step of that
\* request (failing or not) changes the set of tables or any status.
C5_MissingTableIs404 == []C5_NotFound /\ [][C5_Frame]_vars

C5_Witness ==
    \E r \in Reqs :
        /\ Returned(r)
        /\ role[r] = "admin"
        /\ table_number[r] = NumTables + 1
        /\ new_status[r] = "available"
        /\ tx[r] = "committed"
        /\ resp[r].code = 404

\* ------------------------------------------------------------------ C6
\* C6: whenever a storage call of the handler fails with a database error
\* (connect, cursor, execute, fetchone or commit), the response is the
\* generic 500 storage-failure response, the transaction is not left open
\* or committed, and nothing was written.
C6_DbErrorIsGeneric500 ==
    \A r \in Reqs :
        (Returned(r) /\ fault[r] \in DbFaults)
        => /\ resp[r] = Resp(500, "db_error")
           /\ tx[r] \in {"none", "rolledback"}
           /\ writes[r] = {}

\* ------------------------------------------------------------------ C7
\* C7: when the handler has returned after opening a connection, the
\* connection and the cursor are closed, no transaction is pending and no
\* row lock is held by the request.
C7_ConnectionReleased ==
    \A r \in Reqs :
        (Returned(r) /\ conn[r] # "None")
        => /\ conn[r] = "closed"
           /\ cur[r] # "open"
           /\ tx[r] # "active"
           /\ \A n \in DOMAIN lock : lock[n] # r

\* The unexpected-error path taken with the UPDATE executed and not yet
\* committed: only the close in finally ends the transaction.
C7_Witness ==
    \E r \in Reqs :
        /\ Returned(r)
        /\ fault[r] = "unexpected"
        /\ result[r] # {}
        /\ tx[r] = "rolledback"
        /\ conn[r] = "closed"
        /\ resp[r] = Resp(500, "unexpected")

\* ------------------------------------------------------------------ C8
\* C8: a request whose Authorization header is present but has no token
\* segment (only the scheme word, or an empty token after the space) is
\* answered 401 "token missing" and the wrapped handler is not invoked.
C8_NoTokenSegmentIs401 ==
    \A r \in Reqs :
        (Returned(r) /\ header[r] \in {"scheme_only", "empty_token"})
        => /\ resp[r] = Resp(401, "token_missing")
           /\ ~invoked[r]

\* ------------------------------------------------------------------ C9
\* C9: a request of a waiter or admin whose body carries no status (key
\* missing, null, or no JSON object body at all) is answered 400 "status
\* required" before any storage access.
C9_NoStatusIs400 ==
    \A r \in Reqs :
        ( /\ Returned(r)
          /\ invoked[r]
          /\ role[r] \in SpecRoles
          /\ \/ body[r] \in {"no_json", "json_null", "json_array"}
             \/ body[r] = "object" /\ new_status[r] \in {Absent, Null} )
        => /\ resp[r] = Resp(400, "status_required")
           /\ NoStorage(r)

\* ----------------------------------------------------------------- C10
\* C10: under every interleaving of concurrent updates of the same table, a
\* request answered 200 has committed its transaction and reports exactly
\* the row that transaction wrote (its own table number and status), and
\* every row holds the status written by the request that committed to it
\* last (its seeded status if none did).
C10_ResponseIsWhatWasCommitted ==
    /\ \A r \in Reqs :
        (Returned(r) /\ resp[r].code = 200)
        => /\ tx[r] = "committed"
           /\ writes[r] = {<<table_number[r], new_status[r]>>}
           /\ resp[r].table_number = table_number[r]
           /\ resp[r].status = new_status[r]
    /\ \A n \in DOMAIN tables :
        tables[n] = IF lastCommitter[n] = 0
                    THEN default_status
                    ELSE new_status[lastCommitter[n]]

\* Two requests wrote different statuses to the same row and both got 200;
\* the one that committed first reports its own status although the row now
\* holds the other's.
C10_Witness ==
    \E r1, r2 \in Reqs :
        /\ r1 # r2
        /\ Returned(r1) /\ resp[r1].code = 200
        /\ Returned(r2) /\ resp[r2].code = 200
        /\ table_number[r1] = table_number[r2]
        /\ resp[r1].status # resp[r2].status
        /\ lastCommitter[table_number[r1]] = r2
        /\ tables[table_number[r1]] = resp[r2].status

=============================================================================
